---- MODULE Spec2Model ----
(***************************************************************************)
(* EmailService (src/src/EmailService.js): rate limiting, idempotency,      *)
(* per-provider circuit breakers, bounded retry with exponential backoff    *)
(* and provider fallback.  JavaScript runs every synchronous stretch of     *)
(* code atomically; concurrent send() calls interleave only at an await.    *)
(* One action of the model is one such stretch.  Time is in milliseconds.   *)
(***************************************************************************)
EXTENDS Integers, Sequences, FiniteSets, TLC

\* ---------------------------------------------------------------- bounds
NumCalls == 2        \* call slots that may be in flight at the same time
NumIds == 2          \* distinct email ids the callers use
MaxSends == 2        \* send() calls started in one concurrent run
MaxTicks == 3        \* clock ticks in one concurrent run
MaxSeqSends == 7     \* send() calls started in one sequential run
MaxSeqTicks == 2     \* clock steps, short or long, in one sequential run
MaxRejects == 3      \* provider failures in one sequential run
MaxDownSends == 5    \* send() calls started in one run with forced failures
MaxDownJumps == 1    \* long clock steps in one run with forced failures
MaxLiveSends == 3    \* send() calls in one run checked for termination
MaxBurstSends == 3   \* send() calls started in a burst, after the warm-up sends
MaxBurstTicks == 2   \* clock steps, short or long, in one burst run

\* ------------------------------------------------------ program constants
limit == 5                  \* new RateLimiter(5, 10000)
interval == 10000
failureThreshold == 3       \* CircuitBreaker(failureThreshold = 3, recoveryTime = 10000)
recoveryTime == 10000
retries == 3                \* retryWithBackoff(fn, retries = 3, delay = 500)
delay == 500

Calls == 1..NumCalls
Ids == 1..NumIds
\* The clock advances in steps of the shortest backoff wait; every duration
\* the code compares against (1000, 2000, 10000) is a multiple of it.
TickMs == delay * 2
\* Date.now() at construction: far enough from 0 that the initial
\* lastFailureTime = 0 lies more than recoveryTime in the past.
Epoch == recoveryTime + interval

undefined == "undefined"    \* Map.get of a missing key
RateLimited == "Rate limited"
Duplicate == "Duplicate skipped"
AllFailed == "All providers failed"
SentVia(name) == "Sent via " \o name

\* class MockEmailProvider
MockEmailProvider(name) == [name |-> name, shouldFail |-> FALSE]
\* sendEmail throws when shouldFail is set or Math.random() > 0.7
sendEmail(p) == IF p.shouldFail THEN {"throw"} ELSE {"throw", "return"}
\* provider.shouldFail = true, the flag tests set to force failure
ForceFail(p) == [p EXCEPT !.shouldFail = TRUE]

ProviderA == MockEmailProvider("ProviderA")
ProviderB == MockEmailProvider("ProviderB")
\* A clock step that carries a timestamp from one short tick inside the rate
\* window (or the breaker's cooldown) to its edge.
LongMs == interval - TickMs

VARIABLES
    now,              \* Date.now()
    providers,        \* EmailService.providers
    timestamps,       \* RateLimiter.timestamps
    circuitBreakers,  \* EmailService.circuitBreakers: [failures, lastFailureTime]
    sentEmails,       \* EmailService.sentEmails
    statusLog,        \* EmailService.statusLog
    calls,            \* one record per send() call slot
    sends,            \* history: number of send() calls started
    admits,           \* history: Date.now() of every admitted send(), never pruned
    succ,             \* history: per id, provider invocations that returned success
    requested,        \* history: per id, send() calls started with it
    invocations,      \* history: per id, provider invocations made for it
    rejects,          \* history: number of provider invocations that failed
    ticks,            \* history: number of short clock steps
    jumps,            \* history: number of long clock steps
    recorded          \* history: per provider, recordFailure() calls since its last reset()

vars == <<now, providers, timestamps, circuitBreakers, sentEmails, statusLog,
          calls, sends, admits, succ, requested, invocations, rejects,
          ticks, jumps, recorded>>

PIdx == 1..Len(providers)

RECURSIVE Pow2(_)
Pow2(n) == IF n = 0 THEN 1 ELSE 2 * Pow2(n - 1)

\* ------------------------------------------------------------ RateLimiter
\* Variant: admits while the window already holds limit timestamps.
RateLimiter_admits_oneMore(ts, t) == Len(SelectSeq(ts, LAMBDA x : t - x < interval)) <= limit

\* Variant: a timestamp exactly interval old is kept.
RateLimiter_filter_keepsEdge(ts, t) == SelectSeq(ts, LAMBDA x : t - x <= interval)

RateLimiter_filter(ts, t) == SelectSeq(ts, LAMBDA x : t - x < interval)

RateLimiter_admits(ts, t) == Len(RateLimiter_filter(ts, t)) < limit

\* Variant: a rejected call is stamped too.
RateLimiter_allow_stamps(ts, t) == Append(RateLimiter_filter(ts, t), t)

RateLimiter_allow(ts, t) ==
    IF RateLimiter_admits(ts, t)
    THEN Append(RateLimiter_filter(ts, t), t)
    ELSE RateLimiter_filter(ts, t)

\* --------------------------------------------------------- CircuitBreaker
NewCircuitBreaker == [failures |-> 0, lastFailureTime |-> 0]

\* Variant: the cooldown is never looked at.
CircuitBreaker_allow_noCooldown(cb, t) == cb.failures < failureThreshold

CircuitBreaker_allow(cb, t) ==
    ~(cb.failures >= failureThreshold /\ t - cb.lastFailureTime < recoveryTime)

\* Variant: one failure counted per attempt of the exhausted retry.
recordFailure_perAttempt(cb, t) ==
    [failures |-> cb.failures + retries, lastFailureTime |-> t]

\* Variant: a failure after the cooldown has passed starts the count again.
recordFailure_restarts(cb, t) ==
    [failures |-> IF t - cb.lastFailureTime >= recoveryTime /\ cb.failures >= failureThreshold
                  THEN 1 ELSE cb.failures + 1,
     lastFailureTime |-> t]

recordFailure(cb, t) == [failures |-> cb.failures + 1, lastFailureTime |-> t]

\* Variant: reset leaves the count as it is.
reset_keeps(cb) == cb

reset(cb) == [cb EXCEPT !.failures = 0]

\* ----------------------------------------------------------- EmailService
\* Variant: the already-sent check is missing.
sentEmails_has_never(sent, id) == FALSE

sentEmails_has(sent, id) == id \in sent

\* Variant: the status is returned but not stored.
trackStatus_notStored(log, id, status) == log

trackStatus(log, id, status) == [log EXCEPT ![id] = status]

getStatus(id) == statusLog[id]

\* Variant: the exponent starts at 0.
backoff_fromZero(attempt) == delay * Pow2(attempt - 1)

backoff(attempt) == delay * Pow2(attempt)

\* The record of a call slot.  pc is the await the call is suspended at:
\*   "awaitFn"  line 114, the provider's promise
\*   "sleep"    line 118, the backoff timer
\*   "retOk"    line 95, retryWithBackoff has resolved
\*   "retErr"   line 95, retryWithBackoff has rejected
\* The other fields are history of this call:
\*   inv[k]    invocations of provider k's sendEmail
\*   reach[k]  what the for loop saw of breaker k when it reached it
\*   waits[k]  the backoff waits requested while retrying provider k
\*   logs      failure lines written to the console
\*   okAt      the provider whose invocation succeeded, 0 if none
\*   f0        the breakers' failure counts when the call started
\*   inWin/old admitted calls younger / not younger than interval at the start
\*   sent0     whether the id was in sentEmails at the start
NewCall(id) ==
    [pc |-> "idle", id |-> id, i |-> 0, attempt |-> 0, wake |-> 0, result |-> "",
     inv |-> [k \in PIdx |-> 0],
     reach |-> [k \in PIdx |-> "none"],
     waits |-> [k \in PIdx |-> <<>>],
     logs |-> 0,
     f0 |-> [k \in PIdx |-> circuitBreakers[k].failures],
     inWin |-> Cardinality({k \in 1..Len(admits) : now - admits[k] < interval}),
     old |-> Cardinality({k \in 1..Len(admits) : now - admits[k] >= interval}),
     sent0 |-> id \in sentEmails,
     okAt |-> 0,
     gaveUp |-> -1]

Idle ==
    [pc |-> "idle", id |-> 0, i |-> 0, attempt |-> 0, wake |-> 0, result |-> "",
     inv |-> <<>>, reach |-> <<>>, waits |-> <<>>, logs |-> 0, f0 |-> <<>>,
     inWin |-> 0, old |-> 0, sent0 |-> FALSE, okAt |-> 0, gaveUp |-> -1]

RECURSIVE Total(_)
Total(q) == IF q = <<>> THEN 0 ELSE Head(q) + Total(Tail(q))

\* The invocations call c made in this step, added to its id's count.
CountInvocations(c, before) ==
    invocations' = [invocations EXCEPT ![calls'[c].id] =
                        @ + Total(calls'[c].inv) - before]

\* return this.trackStatus(id, status)
Return(c, rec, status) ==
    /\ statusLog' = trackStatus(statusLog, rec.id, status)
    /\ calls' = [calls EXCEPT ![c] = [rec EXCEPT !.pc = "done", !.result = status]]

\* The while loop of retryWithBackoff up to its await: fn() is invoked when
\* attempt < retries, otherwise the function returns.
retryLoop(rec) ==
    IF rec.attempt < retries
    THEN [rec EXCEPT !.pc = "awaitFn", !.inv[rec.i] = @ + 1]
    ELSE [rec EXCEPT !.pc = "retOk"]

\* What the for loop observes of breaker cb when it reaches it.
Observed(cb) ==
    IF cb.failures < failureThreshold THEN "closed"
    ELSE IF now - cb.lastFailureTime < recoveryTime THEN "cooling"
    ELSE "expired"

\* Variant: the loop ends at the first provider whose breaker is open.
ForLoop_stops(c, rec, from, cbs) ==
    LET j == IF from <= Len(providers) /\ CircuitBreaker_allow(cbs[from], now)
             THEN from ELSE 0
        seen == [rec EXCEPT !.reach = [k \in PIdx |->
                       IF k = from THEN Observed(cbs[k]) ELSE rec.reach[k]]]
    IN  IF j = 0
        THEN Return(c, seen, AllFailed)
        ELSE /\ calls' = [calls EXCEPT ![c] =
                            retryLoop([seen EXCEPT !.i = j, !.attempt = 0])]
             /\ statusLog' = statusLog

\* The for loop of send() from index `from` on, with breakers cbs: skips the
\* providers whose breaker is open and starts retryWithBackoff on the first
\* other one; returns 'All providers failed' when there is none.
ForLoop(c, rec, from, cbs) ==
    LET allowed == {k \in from..Len(providers) : CircuitBreaker_allow(cbs[k], now)}
        j == IF allowed = {} THEN 0
             ELSE CHOOSE k \in allowed : \A m \in allowed : k <= m
        last == IF j = 0 THEN Len(providers) ELSE j
        seen == [rec EXCEPT !.reach = [k \in PIdx |->
                       IF k \in from..last THEN Observed(cbs[k]) ELSE rec.reach[k]]]
    IN  IF j = 0
        THEN Return(c, seen, AllFailed)
        ELSE /\ calls' = [calls EXCEPT ![c] =
                            retryLoop([seen EXCEPT !.i = j, !.attempt = 0])]
             /\ statusLog' = statusLog

\* send(email, id) from its entry to its first await or its return.
Start(c, id) ==
    /\ calls[c].pc \in {"idle", "done"}
    /\ sends' = sends + 1
    /\ requested' = [requested EXCEPT ![id] = @ + 1]
    /\ timestamps' = RateLimiter_allow(timestamps, now)
    /\ UNCHANGED <<now, providers, circuitBreakers, sentEmails, succ, rejects,
                   ticks, jumps,
                   recorded>>
    /\ IF ~RateLimiter_admits(timestamps, now)
       THEN /\ Return(c, NewCall(id), RateLimited)
            /\ admits' = admits
       ELSE /\ admits' = Append(admits, now)
            /\ IF sentEmails_has(sentEmails, id)
               THEN Return(c, NewCall(id), Duplicate)
               ELSE ForLoop(c, NewCall(id), 1, circuitBreakers)
    /\ CountInvocations(c, 0)

\* The provider's promise resolves: retryWithBackoff returns.
FnResolves(c) ==
    /\ calls[c].pc = "awaitFn"
    /\ "return" \in sendEmail(providers[calls[c].i])
    /\ calls' = [calls EXCEPT ![c].pc = "retOk", ![c].okAt = calls[c].i]
    /\ succ' = [succ EXCEPT ![calls[c].id] = @ + 1]
    /\ UNCHANGED <<now, providers, timestamps, circuitBreakers, sentEmails,
                   statusLog, sends, admits, requested, invocations, rejects,
                   ticks, jumps,
                   recorded>>

\* Variant: gives up one attempt early.
retryCatch_oneLess(rec) ==
    LET a == rec.attempt + 1
    IN  IF a >= retries - 1
        THEN [rec EXCEPT !.attempt = a, !.pc = "retErr"]
        ELSE [rec EXCEPT !.attempt = a, !.pc = "sleep",
                         !.wake = now + delay * Pow2(a),
                         !.waits[rec.i] = Append(@, delay * Pow2(a))]

\* Variant: the catch block does not count the attempt.
retryCatch_noCount(rec) ==
    LET a == rec.attempt
    IN  IF a >= retries
        THEN [rec EXCEPT !.attempt = a, !.pc = "retErr"]
        ELSE [rec EXCEPT !.attempt = a, !.pc = "sleep",
                         !.wake = now + delay * Pow2(a),
                         !.waits[rec.i] = Append(@, delay * Pow2(a))]

\* The catch block of retryWithBackoff, lines 115-118.
retryCatch(rec) ==
    LET a == rec.attempt + 1
    IN  IF a >= retries
        THEN [rec EXCEPT !.attempt = a, !.pc = "retErr"]
        ELSE [rec EXCEPT !.attempt = a, !.pc = "sleep",
                         !.wake = now + backoff(a),
                         !.waits[rec.i] = Append(@, backoff(a))]

\* The provider's promise rejects.
FnRejects(c) ==
    /\ calls[c].pc = "awaitFn"
    /\ "throw" \in sendEmail(providers[calls[c].i])
    /\ calls' = [calls EXCEPT ![c] = retryCatch(calls[c])]
    /\ rejects' = rejects + 1
    /\ UNCHANGED <<now, providers, timestamps, circuitBreakers, sentEmails,
                   statusLog, sends, admits, succ, requested, invocations, ticks,
                   jumps,
                   recorded>>

\* The backoff timer fires: the while loop goes round.
TimerFires(c) ==
    /\ calls[c].pc = "sleep"
    /\ now >= calls[c].wake
    /\ calls' = [calls EXCEPT ![c] = retryLoop(calls[c])]
    /\ CountInvocations(c, Total(calls[c].inv))
    /\ UNCHANGED <<now, providers, timestamps, circuitBreakers, sentEmails,
                   statusLog, sends, admits, succ, requested, rejects, ticks, jumps,
                   recorded>>

\* Variant: the resumed call does not record the id as sent.
AfterSuccess_noMark(c) ==
    /\ calls[c].pc = "retOk"
    /\ sentEmails' = sentEmails
    /\ circuitBreakers' = [circuitBreakers EXCEPT ![calls[c].i] = reset(@)]
    /\ recorded' = [recorded EXCEPT ![calls[c].i] = 0]
    /\ Return(c, calls[c], SentVia(providers[calls[c].i].name))
    /\ UNCHANGED <<now, providers, timestamps, sends, admits, succ, requested,
                   invocations, rejects, ticks, jumps>>

\* Variant: the resumed call looks at sentEmails again and reports a
\* duplicate when another call has recorded the id meanwhile.
AfterSuccess_recheck(c) ==
    /\ calls[c].pc = "retOk"
    /\ sentEmails' = sentEmails \cup {calls[c].id}
    /\ circuitBreakers' = [circuitBreakers EXCEPT ![calls[c].i] = reset(@)]
    /\ recorded' = [recorded EXCEPT ![calls[c].i] = 0]
    /\ Return(c, calls[c], IF calls[c].id \in sentEmails
                           THEN Duplicate
                           ELSE SentVia(providers[calls[c].i].name))
    /\ UNCHANGED <<now, providers, timestamps, sends, admits, succ, requested,
                   invocations, rejects, ticks, jumps>>

\* send() resumes after retryWithBackoff resolved, lines 96-98.
AfterSuccess(c) ==
    /\ calls[c].pc = "retOk"
    /\ sentEmails' = sentEmails \cup {calls[c].id}
    /\ circuitBreakers' = [circuitBreakers EXCEPT ![calls[c].i] = reset(@)]
    /\ recorded' = [recorded EXCEPT ![calls[c].i] = 0]
    /\ Return(c, calls[c], SentVia(providers[calls[c].i].name))
    /\ UNCHANGED <<now, providers, timestamps, sends, admits, succ, requested,
                   invocations, rejects, ticks, jumps>>

\* Variant: send() has no catch block; the rejection leaves send().
AfterFailure_uncaught(c) ==
    /\ calls[c].pc = "retErr"
    /\ calls' = [calls EXCEPT ![c].pc = "threw"]
    /\ UNCHANGED <<now, providers, timestamps, circuitBreakers, sentEmails,
                   statusLog, sends, admits, succ, requested, invocations, rejects,
                   ticks, jumps,
                   recorded>>

\* Variant: the count written is one more than the count read when the call
\* started, before its awaits.
AfterFailure_stale(c) ==
    /\ calls[c].pc = "retErr"
    /\ LET cbs == [circuitBreakers EXCEPT ![calls[c].i] =
                        [failures |-> calls[c].f0[calls[c].i] + 1,
                         lastFailureTime |-> now]]
       IN  /\ circuitBreakers' = cbs
           /\ ForLoop(c, [calls[c] EXCEPT !.logs = @ + 1], calls[c].i + 1, cbs)
    /\ recorded' = [recorded EXCEPT ![calls[c].i] = @ + 1]
    /\ CountInvocations(c, Total(calls[c].inv))
    /\ UNCHANGED <<now, providers, timestamps, sentEmails, sends, admits, succ,
                   requested, rejects, ticks, jumps>>

\* send() resumes in its catch block, lines 99-102, and goes on with the loop.
AfterFailure(c) ==
    /\ calls[c].pc = "retErr"
    /\ recorded' = [recorded EXCEPT ![calls[c].i] = @ + 1]
    /\ LET cbs == [circuitBreakers EXCEPT ![calls[c].i] = recordFailure(@, now)]
       IN  /\ circuitBreakers' = cbs
           /\ ForLoop(c, [calls[c] EXCEPT !.logs = @ + 1], calls[c].i + 1, cbs)
    /\ CountInvocations(c, Total(calls[c].inv))
    /\ UNCHANGED <<now, providers, timestamps, sentEmails, sends, admits, succ,
                   requested, rejects, ticks, jumps>>

\* The clock moves on by d ms while nothing runs.
Advance(d) ==
    /\ now' = now + d
    /\ UNCHANGED <<providers, timestamps, circuitBreakers, sentEmails, statusLog,
                   calls, sends, admits, succ, requested, invocations, rejects,
                   recorded>>

ShortStep == Advance(TickMs) /\ ticks' = ticks + 1 /\ jumps' = jumps

LongStep == Advance(LongMs) /\ jumps' = jumps + 1 /\ ticks' = ticks

\* constructor(providers), lines 67-73, at Date.now() = Epoch
Construct(ps) ==
    /\ now = Epoch
    /\ providers = ps
    /\ timestamps = <<>>
    /\ circuitBreakers = [k \in 1..Len(ps) |-> NewCircuitBreaker]
    /\ sentEmails = {}
    /\ statusLog = [id \in Ids |-> undefined]
    /\ calls = [c \in Calls |-> Idle]
    /\ sends = 0
    /\ admits = <<>>
    /\ succ = [id \in Ids |-> 0]
    /\ requested = [id \in Ids |-> 0]
    /\ invocations = [id \in Ids |-> 0]
    /\ rejects = 0
    /\ ticks = 0
    /\ jumps = 0
    /\ recorded = [k \in 1..Len(ps) |-> 0]

\* new EmailService([provider1, provider2]), lines 137-139
Init == Construct(<<ProviderA, ProviderB>>)

\* Ids are interchangeable: callers take a new id only after the ids below it.
Usable(id) == \A j \in 1..(id - 1) : requested[j] > 0

\* Call slots are interchangeable: a new call takes the lowest free one.
Free(c) == calls[c].pc \in {"idle", "done"}
LowestFree(c) == Free(c) /\ \A d \in 1..(c - 1) : ~Free(d)

\* Concurrent callers: a send() may start while others are suspended.
StartConc(c, id) == sends < MaxSends /\ Usable(id) /\ LowestFree(c) /\ Start(c, id)

\* The clock runs while some call sleeps on a timer that is not yet due.
Sleeping(c) == calls[c].pc = "sleep" /\ now < calls[c].wake

Tick == ticks < MaxTicks /\ (\E c \in Calls : Sleeping(c)) /\ ShortStep

Next ==
    \/ \E c \in Calls, id \in Ids : StartConc(c, id)
    \/ \E c \in Calls : FnResolves(c)
    \/ \E c \in Calls : FnRejects(c)
    \/ \E c \in Calls : TimerFires(c)
    \/ \E c \in Calls : AfterSuccess(c)
    \/ \E c \in Calls : AfterFailure(c)
    \/ Tick

Spec == Init /\ [][Next]_vars

\* A sequential caller, as the loop of lines 142-146: each send() is awaited
\* before the next one starts.
NoneInFlight == \A c \in Calls : calls[c].pc \in {"idle", "done"}

StartSeq(id) == sends < MaxSeqSends /\ Usable(id) /\ NoneInFlight /\ Start(1, id)

FnRejectsSeq == rejects < MaxRejects /\ FnRejects(1)

TickSeq == ticks + jumps < MaxSeqTicks /\ ShortStep

JumpSeq == ticks + jumps < MaxSeqTicks /\ LongStep

NextSeq ==
    \/ \E id \in Ids : StartSeq(id)
    \/ FnResolves(1)
    \/ FnRejectsSeq
    \/ TimerFires(1)
    \/ AfterSuccess(1)
    \/ AfterFailure(1)
    \/ TickSeq
    \/ JumpSeq

SpecSeq == Init /\ [][NextSeq]_vars

\* The sequential caller on a service constructed with any provider list
\* the constructor accepts.
InitAny == \E ps \in {<<>>, <<ProviderA>>, <<ProviderA, ProviderB>>} : Construct(ps)

SpecAny == InitAny /\ [][NextSeq]_vars

\* The sequential caller against providers forced to fail, as a test sets
\* them up: the first provider always fails, the second does or does not.
InitDown ==
    \E b \in BOOLEAN :
        Construct(<<ForceFail(ProviderA),
                    IF b THEN ForceFail(ProviderB) ELSE ProviderB>>)

StartDown(id) == sends < MaxDownSends /\ Usable(id) /\ NoneInFlight /\ Start(1, id)

\* In these runs the clock runs while the call sleeps (the timer fires on
\* time) and makes long steps between calls.
TickDown == Sleeping(1) /\ ShortStep

JumpDown == NoneInFlight /\ jumps < MaxDownJumps /\ LongStep

NextDown ==
    \/ \E id \in Ids : StartDown(id)
    \/ FnResolves(1)
    \/ FnRejects(1)
    \/ TimerFires(1)
    \/ AfterSuccess(1)
    \/ AfterFailure(1)
    \/ TickDown
    \/ JumpDown

SpecDown == InitDown /\ [][NextDown]_vars

\* The same runs when every provider invocation settles, the clock runs on
\* while a timer is pending, a due timer fires and a settled await resumes.
Settles == FnResolves(1) \/ FnRejects(1)

Fairness ==
    /\ WF_vars(Settles)
    /\ WF_vars(TickDown)
    /\ WF_vars(TimerFires(1))
    /\ WF_vars(AfterSuccess(1))
    /\ WF_vars(AfterFailure(1))

StartLive(id) == sends < MaxLiveSends /\ Usable(id) /\ NoneInFlight /\ Start(1, id)

NextLive ==
    \/ \E id \in Ids : StartLive(id)
    \/ FnResolves(1)
    \/ FnRejects(1)
    \/ TimerFires(1)
    \/ AfterSuccess(1)
    \/ AfterFailure(1)
    \/ TickDown
    \/ JumpDown

SpecLive == InitDown /\ [][NextLive]_vars /\ Fairness

\* A burst of concurrent callers against providers that answer: calls start
\* while others are suspended at the provider, and every invocation succeeds.
\* The burst follows back-to-back sends of one id that leave two slots of
\* the rate window free.
WarmUp == limit - 2

StartBurst(c, id) ==
    /\ sends < WarmUp + MaxBurstSends
    /\ Usable(id) /\ LowestFree(c)
    /\ sends < WarmUp => NoneInFlight /\ id = 1
    /\ Start(c, id)

\* A continuation queued by a settled promise runs before any timer: the
\* clock moves only when no call is about to resume.
Resuming(c) == calls[c].pc \in {"retOk", "retErr"}

TickBurst ==
    /\ ticks + jumps < MaxBurstTicks
    /\ sends >= WarmUp
    /\ \A c \in Calls : ~Resuming(c)
    /\ ShortStep

JumpBurst ==
    /\ ticks + jumps < MaxBurstTicks
    /\ sends >= WarmUp
    /\ \A c \in Calls : ~Resuming(c)
    /\ LongStep

NextBurst ==
    \/ \E c \in Calls, id \in Ids : StartBurst(c, id)
    \/ \E c \in Calls : FnResolves(c)
    \/ \E c \in Calls : AfterSuccess(c)
    \/ TickBurst
    \/ JumpBurst

SpecBurst == Init /\ [][NextBurst]_vars


\* The service built over a single provider, with concurrent callers.
InitOne == Construct(<<ProviderA>>)

SpecOne == InitOne /\ [][Next]_vars


\* The caller of a suspended send() stops waiting for it (its own timeout
\* fires, or it cancels). send(email, id) takes no signal and nothing reaches
\* the call: only the history field records how many invocations the call
\* had made by then.
CallerGivesUp(c) ==
    /\ calls[c].pc \in {"awaitFn", "sleep"}
    /\ calls[c].gaveUp = -1
    /\ calls' = [calls EXCEPT ![c].gaveUp = Total(calls[c].inv)]
    /\ UNCHANGED <<now, providers, timestamps, circuitBreakers, sentEmails,
                   statusLog, sends, admits, succ, requested, invocations, rejects,
                   ticks, jumps,
                   recorded>>

NextCancel ==
    \/ Next
    \/ \E c \in Calls : CallerGivesUp(c)

SpecCancel == Init /\ [][NextCancel]_vars

\* -------------------------------------------------------------- properties
Done(c) == calls[c].pc = "done"

Outcomes ==
    {RateLimited, Duplicate, AllFailed} \cup {SentVia(providers[k].name) : k \in PIdx}

\* C1: for every id at most one provider invocation made for that id ever
\* returns success, under any interleaving of concurrent send() calls.
C1_AtMostOneSuccess == \A id \in Ids : succ[id] <= 1

\* C2 as stated: when a send() for an id starts after an earlier send() of that
\* id returned sent, and these are the only two calls for the id, exactly one
\* provider invocation was made for the id over both calls and the second call
\* returns 'Duplicate skipped'.
C2_ExactlyOneInvocation ==
    \A c \in Calls :
        (Done(c) /\ calls[c].sent0 /\ requested[calls[c].id] = 2)
            => /\ invocations[calls[c].id] = 1
               /\ calls[c].result = Duplicate

\* C2 amended: a send() that starts after an earlier send() of its id returned
\* sent invokes no provider; it returns 'Duplicate skipped' when the rate
\* limiter admits it and 'Rate limited' otherwise; exactly one invocation made
\* for the id has returned success, and when these are the only two calls for
\* the id the invocations made for it are those of the first call, between 1
\* and retries per provider.
C2_SecondCallSkips ==
    \A c \in Calls :
        (Done(c) /\ calls[c].sent0)
            => /\ \A k \in PIdx : calls[c].inv[k] = 0
               /\ succ[calls[c].id] = 1
               /\ calls[c].result = (IF calls[c].inWin < limit THEN Duplicate
                                     ELSE RateLimited)
               /\ requested[calls[c].id] = 2
                    => invocations[calls[c].id] \in 1..(retries * Len(providers))

C2_Witness ==
    \E c \in Calls :
        /\ Done(c) /\ calls[c].sent0 /\ requested[calls[c].id] = 2
        /\ calls[c].result = Duplicate
        /\ invocations[calls[c].id] = 2

\* C3: a send() that starts when limit admitted calls lie within the trailing
\* interval returns 'Rate limited'; a send() that starts when limit calls were
\* admitted and all of them are at least interval old is admitted.
C3_RateWindow ==
    \A c \in Calls :
        Done(c) =>
            /\ calls[c].inWin >= limit => calls[c].result = RateLimited
            /\ (calls[c].inWin = 0 /\ calls[c].old >= limit)
                    => calls[c].result # RateLimited

C3_Witness ==
    \E c \in Calls :
        /\ Done(c) /\ calls[c].inWin = 0 /\ calls[c].old = limit
        /\ calls[c].result # RateLimited
        /\ \E id \in Ids : statusLog[id] = RateLimited

\* C4: a provider whose breaker the for loop finds with failures >= threshold
\* and less than the cooldown since its last failure is not invoked by that
\* send(); one it finds with the cooldown elapsed is invoked, whatever the
\* failure count; allow() is false exactly when failures >= threshold and
\* now - lastFailureTime < cooldown.
C4_BreakerSkips ==
    /\ \A c \in Calls : \A k \in 1..Len(calls[c].reach) :
          /\ calls[c].reach[k] = "cooling" => calls[c].inv[k] = 0
          /\ calls[c].reach[k] \in {"closed", "expired"} => calls[c].inv[k] >= 1
    /\ \A k \in PIdx :
          CircuitBreaker_allow(circuitBreakers[k], now)
            <=> ~(/\ circuitBreakers[k].failures >= failureThreshold
                  /\ now - circuitBreakers[k].lastFailureTime < recoveryTime)

\* An earlier send() was skipped by every breaker (it failed without any
\* invocation), and a later one found a cooldown elapsed and invoked.
C4_Witness ==
    /\ \E id \in Ids : /\ requested[id] >= 1 /\ invocations[id] = 0
                        /\ statusLog[id] = AllFailed
    /\ \E c \in Calls : \E k \in PIdx :
          /\ Done(c)
          /\ calls[c].reach[k] = "expired" /\ calls[c].inv[k] >= 1

\* C5: with providers [A, B], both breakers closed, A failing on every attempt
\* and B succeeding, send() returns 'Sent via B', A's failure count is one
\* more than when the call started and B's failure count is 0.
C5_Fallback ==
    \A c \in Calls :
        (/\ Done(c) /\ Len(providers) = 2
         /\ calls[c].reach[1] = "closed" /\ calls[c].reach[2] = "closed"
         /\ calls[c].inv[1] = retries /\ calls[c].inv[2] = 1 /\ calls[c].okAt = 2)
            => /\ calls[c].result = SentVia(providers[2].name)
               /\ circuitBreakers[1].failures = calls[c].f0[1] + 1
               /\ circuitBreakers[2].failures = 0

C5_Witness ==
    \E c \in Calls :
        /\ Done(c) /\ Len(providers) = 2
        /\ calls[c].reach[1] = "closed" /\ calls[c].reach[2] = "closed"
        /\ calls[c].inv[1] = retries /\ calls[c].inv[2] = 1 /\ calls[c].okAt = 2
        /\ calls[c].f0[1] = 1 /\ calls[c].f0[2] = 1

\* C6: with every provider failing on every attempt and every breaker letting
\* the call through, send() invokes each provider exactly retries times, logs
\* one failure per provider, records one breaker failure per provider and
\* returns 'All providers failed'.
C6_AllFail ==
    \A c \in Calls :
        (/\ Done(c) /\ calls[c].okAt = 0
         /\ \A k \in PIdx : calls[c].reach[k] \in {"closed", "expired"})
            => /\ \A k \in PIdx : calls[c].inv[k] = retries
               /\ calls[c].logs = Len(providers)
               /\ \A k \in PIdx : circuitBreakers[k].failures = calls[c].f0[k] + 1
               /\ calls[c].result = AllFailed

C6_Witness ==
    \E c \in Calls :
        /\ Done(c) /\ calls[c].okAt = 0 /\ Len(providers) = 2
        /\ \A k \in PIdx : calls[c].reach[k] = "closed" /\ calls[c].inv[k] = retries
        /\ calls[c].result = AllFailed

\* C7: for every provider tried in a send(), the n-th backoff wait is
\* delay * 2^n, counted from 1 for that provider; there are at most retries - 1
\* waits, one after every failed attempt but the last, none after a success.
C7_Backoff ==
    \A c \in Calls : \A k \in 1..Len(calls[c].waits) :
        LET w == calls[c].waits[k]
        IN  /\ \A n \in 1..Len(w) : w[n] = delay * (2 ^ n)
            /\ \A n \in 1..(Len(w) - 1) : w[n] < w[n + 1]
            /\ Len(w) <= retries - 1
            /\ Len(w) = IF calls[c].pc = "sleep" /\ calls[c].i = k
                        THEN calls[c].inv[k]
                        ELSE IF calls[c].inv[k] = 0 THEN 0 ELSE calls[c].inv[k] - 1
            /\ (calls[c].pc = "sleep" /\ calls[c].i = k)
                    => calls[c].wake - now <= w[Len(w)]

C7_Witness ==
    \E c \in Calls :
        /\ Done(c) /\ Len(providers) = 2
        /\ calls[c].waits[1] = <<delay * 2, delay * 4>>
        /\ calls[c].waits[2] = <<delay * 2>>
        /\ calls[c].okAt = 2

Returns(c) == calls'[c].pc = "done" /\ calls'[c] # calls[c]

C10_EmptyListRejected ==
    \A c \in Calls : ~(Done(c) /\ Len(providers) = 0 /\ calls[c].result = AllFailed)

\* C11: in every reachable state the rate window holds at most limit
\* timestamps within the trailing interval, and no interval-long window
\* holds more than limit admissions, also when calls start while others are
\* suspended.
C11_WindowBound ==
    /\ Cardinality({k \in 1..Len(timestamps) : now - timestamps[k] < interval}) <= limit
    /\ \A k \in 1..Len(admits) :
          Cardinality({j \in 1..Len(admits) :
                          admits[j] >= admits[k] /\ admits[j] - admits[k] < interval})
            <= limit

\* One slot remained; a call took it and is still at its provider, and a
\* call started meanwhile was rejected.
C11_Witness ==
    \E c, d \in Calls :
        /\ calls[c].pc = "awaitFn" /\ calls[c].inWin = limit - 1
        /\ Done(d) /\ calls[d].inWin = limit /\ calls[d].result = RateLimited

\* C12: send() calls with the same id that were all admitted, all started
\* before the id was recorded as sent, and whose single provider succeeded
\* on the first attempt, return the same outcome.
FirstTry(c) ==
    /\ Done(c) /\ ~calls[c].sent0 /\ calls[c].result # RateLimited
    /\ calls[c].okAt = 1 /\ calls[c].inv[1] = 1

C12_SameOutcome ==
    \A c, d \in Calls :
        FirstTry(c) /\ FirstTry(d) /\ calls[c].id = calls[d].id
            => calls[c].result = calls[d].result

\* Two calls for one id overlapped at the provider and both have returned.
C12_Witness ==
    \E c, d \in Calls :
        /\ c # d /\ FirstTry(c) /\ FirstTry(d) /\ calls[c].id = calls[d].id
        /\ calls[c].result = SentVia(ProviderA.name)
        /\ Len(providers) = 1

\* C13: an id is in sentEmails only after a provider invocation for it
\* returned success; a step puts an id into sentEmails exactly when a send()
\* for that id returns a sent outcome after its provider succeeded, so that
\* the id is in sentEmails iff such a return has happened; ids are never
\* removed, and rate-limited, duplicate and all-failed returns add none.
IsSent(r) == \E k \in PIdx : r = SentVia(providers[k].name)

ReturnsSent(c) == Returns(c) /\ IsSent(calls'[c].result) /\ calls'[c].okAt # 0

C13_SentEmails ==
    /\ [](\A id \in Ids : id \in sentEmails => succ[id] >= 1)
    /\ [][/\ sentEmails \subseteq sentEmails'
          /\ \A id \in Ids :
                id \in sentEmails' <=>
                    \/ id \in sentEmails
                    \/ \E c \in Calls : ReturnsSent(c) /\ calls'[c].id = id
          /\ \A c \in Calls :
                Returns(c) /\ calls'[c].result \in {RateLimited, Duplicate, AllFailed}
                    => sentEmails' = sentEmails]_vars

\* One id was sent and then asked for again; another id failed at every
\* provider and is not recorded as sent.
C13_Witness ==
    \E id, other \in Ids :
        /\ id \in sentEmails /\ succ[id] = 1 /\ requested[id] >= 2
        /\ statusLog[id] = Duplicate
        /\ other \notin sentEmails /\ statusLog[other] = AllFailed
        /\ invocations[other] >= retries

\* C14: a send() in flight returns an outcome, when provider invocations
\* settle and sleeps end; within one call no provider is invoked more than
\* retries times, the call makes at most retries * (number of providers)
\* invocations, and the provider index only moves forward, each invocation
\* going to the provider the call is at.
InFlight(c) == calls[c].pc \in {"awaitFn", "sleep", "retOk", "retErr"}

C14_Terminates ==
    /\ [](\A c \in Calls : calls[c].pc # "idle" =>
            /\ \A k \in PIdx : calls[c].inv[k] <= retries
            /\ Total(calls[c].inv) <= retries * Len(providers))
    /\ [][\A c \in Calls : InFlight(c) =>
            /\ calls'[c].i >= calls[c].i
            /\ \A k \in PIdx : calls'[c].inv[k] # calls[c].inv[k] => k = calls'[c].i]_vars
    /\ \A c \in Calls : InFlight(c) ~> Done(c) /\ calls[c].result \in Outcomes

\* A call has invoked every provider retries times and has returned.
C14_Witness ==
    \E c \in Calls :
        /\ Done(c) /\ calls[c].result = AllFailed
        /\ \A k \in PIdx : calls[c].inv[k] = retries
        /\ Total(calls[c].inv) = retries * Len(providers)

\* C15: a call whose caller has given up while it was suspended makes no
\* provider invocation after that.
C15_NoInvocationAfterCancel ==
    \A c \in Calls :
        calls[c].gaveUp >= 0 => Total(calls[c].inv) = calls[c].gaveUp

\* C16: the step in which a send() returns rate-limited invokes no provider,
\* leaves every breaker, sentEmails and the rate window as they were, and
\* changes the status log only at the call's id, to rate-limited.
ReturnsRateLimited(c) == Returns(c) /\ calls'[c].result = RateLimited

C16_RateLimitedNoWork ==
    [][\A c \in Calls : ReturnsRateLimited(c) =>
          /\ Total(calls'[c].inv) = 0
          /\ invocations' = invocations /\ succ' = succ
          /\ circuitBreakers' = circuitBreakers
          /\ sentEmails' = sentEmails
          /\ timestamps' = timestamps /\ admits' = admits
          /\ statusLog' = [statusLog EXCEPT ![calls'[c].id] = RateLimited]
          /\ \A d \in Calls \ {c} : calls'[d] = calls[d]]_vars

\* A call was rejected while a breaker had a failure on record and an id
\* was recorded as sent.
C16_Witness ==
    \E c \in Calls :
        /\ Done(c) /\ calls[c].result = RateLimited /\ calls[c].inWin = limit
        /\ Total(calls[c].inv) = 0
        /\ circuitBreakers[1].failures >= 1
        /\ sentEmails # {}
        /\ Len(timestamps) = limit

\* C17: a provider whose breaker a send() finds open is not invoked by that
\* call, the step that skips it leaves that breaker as it was and logs no
\* failure for it, and the call goes on to the next provider in the same
\* step; a call that finds every breaker open returns all-failed with no
\* invocation.
Skipped(c, k) == calls[c].reach[k] = "cooling"

C17_OpenBreakerSkipped ==
    /\ [](\A c \in Calls : calls[c].pc # "idle" =>
            /\ \A k \in PIdx : Skipped(c, k) =>
                  /\ calls[c].inv[k] = 0
                  /\ k < Len(providers) => calls[c].reach[k + 1] # "none"
            /\ Done(c) /\ calls[c].result \notin {RateLimited, Duplicate} =>
                  calls[c].logs =
                      Cardinality({k \in PIdx : /\ calls[c].reach[k] \in {"closed", "expired"}
                                                /\ calls[c].okAt # k})
            /\ (\A k \in PIdx : Skipped(c, k)) =>
                  /\ Done(c) /\ calls[c].result = AllFailed
                  /\ Total(calls[c].inv) = 0 /\ calls[c].logs = 0)
    /\ [][\A c \in Calls : \A k \in PIdx :
            (/\ calls'[c] # calls[c]
             /\ calls'[c].reach[k] = "cooling"
             /\ calls[c].pc \in {"idle", "done"} \/ calls[c].reach[k] = "none")
                => circuitBreakers'[k] = circuitBreakers[k]]_vars

\* A call found every breaker open and returned at once.
C17_Witness ==
    \E c \in Calls :
        /\ Done(c) /\ \A k \in PIdx : Skipped(c, k)
        /\ calls[c].result = AllFailed /\ Total(calls[c].inv) = 0
        /\ \A k \in PIdx : circuitBreakers[k].failures >= failureThreshold

\* C18: within a call, provider j is invoked only when every provider before
\* it was skipped by its open breaker or failed retries times; once provider
\* j has succeeded no later provider is reached, and the call returns
\* 'Sent via <name of j>' in the step that sets breaker j's count to 0.
TriedInOrder(c) ==
    \A j \in PIdx : calls[c].inv[j] >= 1 =>
        \A i \in 1..(j - 1) :
            \/ Skipped(c, i)
            \/ calls[c].inv[i] = retries /\ calls[c].okAt # i

RecordsFailure(k) ==
    /\ circuitBreakers'[k].failures = circuitBreakers[k].failures + 1
    /\ circuitBreakers'[k].lastFailureTime = now
    /\ \E c \in Calls : /\ calls[c].pc = "retErr" /\ calls[c].i = k
                        /\ calls'[c] # calls[c]

Resets(k) ==
    /\ circuitBreakers'[k].failures = 0
    /\ circuitBreakers'[k].lastFailureTime = circuitBreakers[k].lastFailureTime
    /\ \E c \in Calls : /\ calls[c].pc = "retOk" /\ calls[c].okAt = k
                        /\ calls'[c] # calls[c]

C19_NoDecay ==
    [][/\ \A k \in PIdx :
             \/ circuitBreakers'[k] = circuitBreakers[k]
             \/ RecordsFailure(k)
             \/ Resets(k)
       /\ now' # now => circuitBreakers' = circuitBreakers
       /\ \A k \in PIdx :
             (/\ circuitBreakers[k].failures >= failureThreshold
              /\ circuitBreakers'[k] # circuitBreakers[k]
              /\ circuitBreakers'[k].failures # 0)
                => /\ \A n \in 0..(recoveryTime \div TickMs - 1) :
                         ~CircuitBreaker_allow(circuitBreakers'[k], now + n * TickMs)
                   /\ ~CircuitBreaker_allow(circuitBreakers'[k], now + recoveryTime - 1)
                   /\ CircuitBreaker_allow(circuitBreakers'[k], now + recoveryTime)]_vars

\* A breaker whose cooldown had passed let a call through, the call failed
\* retries times, and the breaker is open again with one failure more.
C19_Witness ==
    \E k \in PIdx :
        /\ circuitBreakers[k].failures = failureThreshold + 1
        /\ circuitBreakers[k].lastFailureTime = now
        /\ ~CircuitBreaker_allow(circuitBreakers[k], now)
        /\ \E c \in Calls : calls[c].reach[k] = "expired" /\ calls[c].inv[k] = retries

\* C20: for every provider, the breaker's failure count is the number of
\* recordFailure() calls made on it since its last reset(), or since
\* construction, whatever the interleaving of the calls.
C20_NoLostUpdate ==
    \A k \in PIdx : circuitBreakers[k].failures = recorded[k]

\* Two calls that both started before any failure was recorded have each
\* exhausted the first provider, and both failures are counted.
C20_Witness ==
    \E c, d \in Calls :
        /\ c # d /\ circuitBreakers[1].failures = 2 /\ recorded[1] = 2
        /\ calls[c].pc # "idle" /\ calls[d].pc # "idle"
        /\ calls[c].f0[1] = 0 /\ calls[d].f0[1] = 0
        /\ calls[c].inv[1] = retries /\ calls[d].inv[1] = retries
        /\ calls[c].okAt # 1 /\ calls[d].okAt # 1
====
